---- MODULE Spec2Model ----
(***************************************************************************)
(* Pokemon scouting: the Dash application                                  *)
(* (src/pokemon_app_v4_Final_with_error_handling_commented.py), its first  *)
(* version and the stand-alone scouting script (src/poke_app_v1.py).       *)
(*                                                                         *)
(* The remote PokeAPI is the environment: every requests.get returns a     *)
(* response chosen from a bounded set (a transport exception, a status     *)
(* code, a body that may be unparsable or lack fields).  Python values are *)
(* modelled structurally: dicts as records, lists as sequences, str as     *)
(* strings, None as the string NONE where it stands among strings and as   *)
(* the record PyNone where it stands among lists.  A Python call that may  *)
(* raise evaluates to Raise(msg) or Return(v), so that "never raises" is   *)
(* something the model can refute.                                         *)
(***************************************************************************)
EXTENDS Integers, Sequences, FiniteSets, TLC

VARIABLES
    \* ---- browser / Dash component state (v4 layout, lines 148-205)
    n_clicks,          \* fetch-button n_clicks; 0 stands for None
    sel,               \* values of the dropdowns pokemon1..pokemon5
    store,             \* dcc.Store "pokemon-data-store".data
    results,           \* html.Div "results".children
    download,          \* dcc.Download "download-csv".data
    \* ---- the update_results callback in flight
    pc,                \* position of the callback
    pokemon_names,     \* line 229
    pokemon_data,      \* line 235, built left to right
    pending,           \* base response of the identifier being resolved
    calls,             \* remote calls of the current invocation, in order
    \* ---- the scouting script (poke_app_v1.py lines 153-216)
    script_pc,
    script_data,       \* pokemon_data of run_scouting_task
    csv_file,          \* what df.to_csv wrote
    \* ---- the catalog lister
    lister,            \* which program started: "none", "v1", "v4"
    listing,           \* the response the listing call got
    all_pokemon_names  \* module-level all_pokemon_names

appVars    == <<n_clicks, sel, store, results, download, pc, pokemon_names,
                pokemon_data, pending, calls>>
scriptVars == <<script_pc, script_data, csv_file>>
listerVars == <<lister, listing, all_pokemon_names>>
vars       == <<appVars, scriptVars, listerVars>>

-----------------------------------------------------------------------------
(* Bounds of the model *)

\* how many dropdowns the user fills in before a Fetch of the batch model
MaxSelected == 2
\* how many times the Fetch button is clicked between two page loads
MaxClicks == 2
\* how many entries the catalog listing returns
MaxListing == 3

-----------------------------------------------------------------------------
(* Python values *)

NONE   == "<None>"
PyNone == [py |-> "None"]
PyList(s) == [py |-> "list", items |-> s]
NaN    == "NaN"

Raise(msg) == [exc |-> TRUE, msg |-> msg]
Return(v)  == [exc |-> FALSE, ret |-> v]

\* variant: "if p is not None" in place of "if p"
Truthy_not_none(p) == p # NONE

\* truth value of a dropdown value (None and "" are falsy)
Truthy(p) == p # NONE /\ p # ""

RECURSIVE Join(_, _)
\* sep.join(seq)
Join(sep, seq) ==
    IF seq = <<>> THEN ""
    ELSE IF Len(seq) = 1 THEN seq[1]
    ELSE seq[1] \o sep \o Join(sep, Tail(seq))

\* variant: the identifier is used as supplied
Lower_identity(s) == s

\* str.lower() on the identifiers of the model
Lower(s) ==
    CASE s = "Pikachu" -> "pikachu"
      [] s = "MEW"     -> "mew"
      [] OTHER         -> s

RECURSIVE FilterSeen(_, _)
FilterSeen(s, seen) ==
    IF s = <<>> THEN <<>>
    ELSE IF Head(s) # NONE /\ Head(s) # "" /\ Head(s) \notin seen
    THEN <<Head(s)>> \o FilterSeen(Tail(s), seen \cup {Head(s)})
    ELSE FilterSeen(Tail(s), seen)

\* variant: repeated identifiers are resolved once
Filter_dedup(s) == FilterSeen(s, {})

RECURSIVE Filter(_)
\* [p for p in (p1, ..., p5) if p]
Filter(s) ==
    IF s = <<>> THEN <<>>
    ELSE IF Truthy(Head(s)) THEN <<Head(s)>> \o Filter(Tail(s))
    ELSE Filter(Tail(s))

Without(rec, f) == [k \in DOMAIN rec \ {f} |-> rec[k]]

-----------------------------------------------------------------------------
(* The remote service *)

Exception(msg)   == [kind |-> "exception", message |-> msg]
Http(code, json) == [kind |-> "http", status_code |-> code, json |-> json]
Unparsable       == Raise("Expecting value: line 1 column 1 (char 0)")

\* GET /pokemon/{name}: the record the service holds under a key
Catalog(key) ==
    CASE key = "pikachu" ->
            [id |-> 25, name |-> "pikachu", height |-> 4, weight |-> 60,
             base_experience |-> 112,
             types |-> <<[type |-> [name |-> "electric"]]>>]
      [] key = "mew" ->
            [id |-> 151, name |-> "mew", height |-> 4, weight |-> 40,
             base_experience |-> 300,
             types |-> <<[type |-> [name |-> "psychic"]]>>]
      [] key = "charizard" ->
            [id |-> 6, name |-> "charizard", height |-> 17, weight |-> 905,
             base_experience |-> 267,
             types |-> <<[type |-> [name |-> "fire"]],
                         [type |-> [name |-> "flying"]]>>]
      [] OTHER ->
            [id |-> 99, name |-> key, height |-> 13, weight |-> 600,
             base_experience |-> 166,
             types |-> <<[type |-> [name |-> "water"]]>>]

\* what a base lookup by key can come back with
RichBase(key) ==
    { Exception("Connection refused"),
      Http(404, Unparsable),
      Http(200, Unparsable),
      Http(200, Return(Without(Catalog(key), "id"))),
      Http(200, Return(Without(Catalog(key), "height"))),
      Http(200, Return(Catalog(key))) }

LeanBase(key) ==
    { Http(404, Unparsable), Http(200, Return(Catalog(key))) }

\* the base responses of the session model ("lean") and of the batch model
BaseResponses(env, key) ==
    IF env = "rich" THEN RichBase(key) ELSE LeanBase(key)

Area(n) == [location_area |-> [name |-> n]]

\* what a location lookup can come back with
RichLoc ==
    { Exception("Read timed out"),
      Http(500, Unparsable),
      Http(200, Return(<<>>)),
      Http(200, Return(<<Area("viridian-forest"), Area("kanto-route-2")>>)),
      Http(200, Return(<<Area("viridian-forest"), [version_details |-> <<>>]>>)) }

LeanLoc ==
    { Http(200, Return(<<Area("viridian-forest"), Area("kanto-route-2")>>)) }

-----------------------------------------------------------------------------
(* Record Resolver (v4) *)

POKEAPI_URL(name) == "https://pokeapi.co/api/v2/pokemon/" \o name
\* variant: the URL template is used without .format(pokemon_id)
ENCOUNTERS_URL_unformatted(pokemon_id) ==
    "https://pokeapi.co/api/v2/pokemon/{}/encounters"

ENCOUNTERS_URL(pokemon_id) ==
    "https://pokeapi.co/api/v2/pokemon/" \o ToString(pokemon_id) \o "/encounters"

\* ", ".join(loc["location_area"]["name"] for loc in locations)
JoinLocations(locations) ==
    IF \E i \in 1..Len(locations) : "location_area" \notin DOMAIN locations[i]
    THEN Raise("'location_area'")
    ELSE Return(Join(", ", [i \in 1..Len(locations) |->
                               locations[i].location_area.name]))

\* the try block of fetch_pokemon_location, given the response of the GET
fetch_pokemon_location_try(response) ==
    IF response.kind = "exception" THEN Raise(response.message)
    ELSE IF response.status_code = 200
    THEN IF response.json.exc THEN Raise(response.json.msg)
         ELSE LET locations == response.json.ret IN
              IF locations # <<>> THEN JoinLocations(locations)
              ELSE Return("Unknown")
    ELSE Return("Error retrieving location (status code "
                \o ToString(response.status_code) \o ")")

\* variant: fetch_pokemon_location without its except clause
fetch_pokemon_location_noexcept(response) ==
    fetch_pokemon_location_try(response)

fetch_pokemon_location(response) ==
    LET t == fetch_pokemon_location_try(response) IN
    IF t.exc THEN Return("Exception occurred fetching location: " \o t.msg)
    ELSE t

\* pokemon_id = data["id"]
pokemon_id_of(data) == data.id

\* the base response lets control reach the call of fetch_pokemon_location
ReachesLocation(response) ==
    /\ response.kind = "http"
    /\ response.status_code = 200
    /\ ~response.json.exc
    /\ "id" \in DOMAIN response.json.ret

\* the keys the dict literal of the return statement reads, in order
RecordReads == <<"name", "height", "weight", "base_experience", "types">>

\* the dict literal of the return statement
BuildRecord(data, location) ==
    IF \E k \in 1..Len(RecordReads) : RecordReads[k] \notin DOMAIN data
    THEN LET k == CHOOSE k \in 1..Len(RecordReads) :
                    /\ RecordReads[k] \notin DOMAIN data
                    /\ \A j \in 1..(k-1) : RecordReads[j] \in DOMAIN data
         IN Raise("'" \o RecordReads[k] \o "'")
    ELSE Return([name            |-> data.name,
                 id              |-> pokemon_id_of(data),
                 height          |-> data.height,
                 weight          |-> data.weight,
                 base_experience |-> data.base_experience,
                 types           |-> Join(", ", [i \in 1..Len(data.types) |->
                                                   data.types[i].type.name]),
                 location        |-> location])

\* variant: fetch_pokemon_data without its except clause
ErrorPlaceholder_reraise(pokemon_name, msg) == Raise(msg)

\* what the except clause of fetch_pokemon_data returns
ErrorPlaceholder(pokemon_name, msg) ==
    Return([name |-> pokemon_name, error |-> msg])

\* the try block of fetch_pokemon_data: response is what the base lookup got,
\* loc_response what the location lookup gets if it is made
fetch_pokemon_data_try(pokemon_name, response, loc_response) ==
    IF response.kind = "exception" THEN Raise(response.message)
    ELSE IF response.status_code = 200
    THEN IF response.json.exc THEN Raise(response.json.msg)
         ELSE LET data == response.json.ret IN
              IF "id" \notin DOMAIN data THEN Raise("'id'")
              ELSE LET location == fetch_pokemon_location(loc_response) IN
                   IF location.exc THEN location
                   ELSE BuildRecord(data, location.ret)
    ELSE Return([name  |-> pokemon_name,
                 error |-> "Data not found (status code "
                           \o ToString(response.status_code) \o ")"])

fetch_pokemon_data(pokemon_name, response, loc_response) ==
    LET t == fetch_pokemon_data_try(pokemon_name, response, loc_response) IN
    IF t.exc THEN ErrorPlaceholder(pokemon_name, t.msg) ELSE t

-----------------------------------------------------------------------------
(* Batch Aggregator (v4): the update_results and download_csv callbacks *)

\* the dropdowns pokemon1 .. pokemon5 of the layout
NumDropdowns == 5

NoResponse == Exception("no request made")

\* html.Div(id="results") of the layout has no children
NoChildren == [kind |-> "none"]

Text(t) == [kind |-> "text", text |-> t]

\* the Div generate_error_report_link builds: the red paragraph and the link
generate_error_report_link(error_list) ==
    [kind  |-> "error_report",
     names |-> error_list,
     text  |-> "Error: The following Pokemon were not found or had an error: "
               \o Join(", ", error_list),
     href  |-> "mailto:wcollier1390@gmail.com?subject=Pokemon Scouting Error&body="
               \o "Hello Dev Team,%0D%0A%0D%0A"
               \o "We encountered the following Pokemon errors or issues:%0D%0A"
               \o Join(", ", error_list) \o "%0D%0A%0D%0A"
               \o "Please advise on potential fixes.%0D%0A%0D%0AThank you,"]

DataTable(data) ==
    [kind    |-> "table",
     columns |-> <<"name", "id", "height", "weight", "base_experience",
                   "types", "location">>,
     data    |-> data]

IsError(p) == "error" \in DOMAIN p

\* error_messages = [p["name"] for p in pokemon_data if "error" in p]
ErrorMessages(data) ==
    LET E == SelectSeq(data, IsError) IN [i \in 1..Len(E) |-> E[i].name]

\* variant: the rows that resolved are shown although others failed
update_results_return_partial(data) ==
    LET IsRow(p) == ~IsError(p)
        rows == SelectSeq(data, IsRow) IN
    IF rows = <<>>
    THEN <<PyNone, generate_error_report_link(ErrorMessages(data))>>
    ELSE <<PyList(rows), DataTable(rows)>>

\* variant: the error path returns the data to the store
update_results_return_keep(data) ==
    LET error_messages == ErrorMessages(data) IN
    IF error_messages # <<>>
    THEN <<PyList(data), generate_error_report_link(error_messages)>>
    ELSE <<PyList(data), DataTable(data)>>

\* lines 237-264 of update_results: the pair (pokemon-data-store.data, results.children)
update_results_return(data) ==
    LET error_messages == ErrorMessages(data) IN
    IF error_messages # <<>>
    THEN <<PyNone, generate_error_report_link(error_messages)>>
    ELSE <<PyList(data), DataTable(data)>>

\* pd.DataFrame(list of dicts): the union of the keys as columns, NaN where a
\* dict lacks the key
DataFrame(data) ==
    LET columns == UNION {DOMAIN data[i] : i \in 1..Len(data)} IN
    [columns |-> columns,
     rows    |-> [i \in 1..Len(data) |->
                    [c \in columns |->
                        IF c \in DOMAIN data[i] THEN data[i][c] ELSE NaN]]]

\* df.to_csv into a file of the given name
to_csv(df, filename, index) ==
    [filename |-> filename, index |-> index,
     columns |-> df.columns, rows |-> df.rows]

\* download_csv(n_clicks, data)
download_csv(data) ==
    IF data # PyNone /\ data.items # <<>>
    THEN to_csv(DataFrame(data.items), "pokemon_data.csv", TRUE)
    ELSE PyNone

\* The page is (re)loaded: the layout is fresh and Dash makes the initial call
\* of update_results (no prevent_initial_call), with n_clicks None.
PageLoad ==
    /\ pc = "idle"
    /\ n_clicks' = 0
    /\ sel' = [i \in 1..NumDropdowns |-> NONE]
    /\ store' = PyNone
    /\ results' = NoChildren
    /\ download' = PyNone
    /\ pokemon_names' = <<>>
    /\ pokemon_data' = <<>>
    /\ calls' = <<>>
    /\ pc' = "entry"
    /\ UNCHANGED <<pending, scriptVars, listerVars>>

\* The user has set the dropdowns to s and clicks "Fetch Data".
Click(Sels) ==
    /\ pc = "idle"
    /\ n_clicks < MaxClicks
    /\ \E s \in Sels : sel' = s
    /\ n_clicks' = n_clicks + 1
    /\ pokemon_names' = <<>>
    /\ pokemon_data' = <<>>
    /\ calls' = <<>>
    /\ pc' = "entry"
    /\ UNCHANGED <<store, results, download, pending, scriptVars, listerVars>>

\* update_results, lines 225-232
Enter ==
    /\ pc = "entry"
    /\ IF n_clicks = 0
       THEN /\ store' = PyNone
            /\ results' = Text("")
            /\ pc' = "idle"
            /\ UNCHANGED pokemon_names
       ELSE LET names == Filter(sel) IN
            IF names = <<>>
            THEN /\ store' = PyNone
                 /\ results' = Text("Please select at least one Pokemon.")
                 /\ pc' = "idle"
                 /\ UNCHANGED pokemon_names
            ELSE /\ pokemon_names' = names
                 /\ pc' = "base"
                 /\ UNCHANGED <<store, results>>
    /\ UNCHANGED <<n_clicks, sel, download, pokemon_data, pending, calls,
                   scriptVars, listerVars>>

\* fetch_pokemon_data has returned or raised for the current identifier
Resolved(res) ==
    IF res.exc
    THEN /\ pc' = "raised"
         /\ UNCHANGED pokemon_data
    ELSE /\ pokemon_data' = Append(pokemon_data, res.ret)
         /\ pc' = IF Len(pokemon_data) + 1 = Len(pokemon_names)
                  THEN "classify" ELSE "base"

\* line 235, next identifier: fetch_pokemon_data up to the base response
BaseLookup(env) ==
    /\ pc = "base"
    /\ LET i            == Len(pokemon_data) + 1
           pokemon_name == pokemon_names[i]
       IN \E response \in BaseResponses(env, Lower(pokemon_name)) :
            /\ calls' = Append(calls, [op   |-> "base",
                                       url  |-> POKEAPI_URL(Lower(pokemon_name)),
                                       for  |-> i,
                                       resp |-> response])
            /\ IF ReachesLocation(response)
               THEN /\ pending' = response
                    /\ pc' = "location"
                    /\ UNCHANGED pokemon_data
               ELSE /\ Resolved(fetch_pokemon_data(pokemon_name, response,
                                                   NoResponse))
                    /\ UNCHANGED pending
    /\ UNCHANGED <<n_clicks, sel, store, results, download, pokemon_names,
                   scriptVars, listerVars>>

\* fetch_pokemon_data from the call of fetch_pokemon_location to its return
LocationLookup(Loc) ==
    /\ pc = "location"
    /\ LET i            == Len(pokemon_data) + 1
           pokemon_name == pokemon_names[i]
           pokemon_id   == pokemon_id_of(pending.json.ret)
       IN \E response \in Loc :
            /\ calls' = Append(calls, [op   |-> "location",
                                       url  |-> ENCOUNTERS_URL(pokemon_id),
                                       for  |-> i,
                                       resp |-> response])
            /\ Resolved(fetch_pokemon_data(pokemon_name, pending, response))
    /\ pending' = NoResponse
    /\ UNCHANGED <<n_clicks, sel, store, results, download, pokemon_names,
                   scriptVars, listerVars>>

\* update_results, lines 237-264
Classify ==
    /\ pc = "classify"
    /\ store' = update_results_return(pokemon_data)[1]
    /\ results' = update_results_return(pokemon_data)[2]
    /\ pc' = "idle"
    /\ UNCHANGED <<n_clicks, sel, download, pokemon_names, pokemon_data,
                   pending, calls, scriptVars, listerVars>>

\* The user clicks "Download CSV": Dash calls download_csv with the store's
\* data as State.
DownloadClick ==
    /\ pc = "idle"
    /\ pc' = "download"
    /\ UNCHANGED <<n_clicks, sel, store, results, download, pokemon_names,
                   pokemon_data, pending, calls, scriptVars, listerVars>>

\* download_csv returns
Download ==
    /\ pc = "download"
    /\ download' = download_csv(store)
    /\ pc' = "idle"
    /\ UNCHANGED <<n_clicks, sel, store, results, pokemon_names,
                   pokemon_data, pending, calls, scriptVars, listerVars>>

-----------------------------------------------------------------------------
(* The scouting script (poke_app_v1.py, "poke_import requests.py") *)

target_pokemon ==
    <<"pikachu", "dhelmise", "charizard", "parasect", "terodactyl", "kingler">>

\* the names the service knows ("terodactyl" is not one)
KnownNames == {"pikachu", "dhelmise", "charizard", "parasect", "kingler", "mew"}

ScriptBase(key) ==
    IF key \in KnownNames
    THEN { Exception("Connection refused"), Http(404, Unparsable),
           Http(200, Return(Catalog(key))) }
    ELSE { Http(404, Unparsable) }

ScriptLoc ==
    { Http(500, Unparsable),
      Http(200, Return(<<>>)),
      Http(200, Return(<<Area("viridian-forest"), Area("kanto-route-2")>>)) }

\* fetch_pokemon_location of the script: no try
script_fetch_pokemon_location(response) ==
    IF response.kind = "exception" THEN Raise(response.message)
    ELSE IF response.status_code = 200
    THEN IF response.json.exc THEN Raise(response.json.msg)
         ELSE LET locations == response.json.ret IN
              IF locations # <<>> THEN JoinLocations(locations)
              ELSE Return("Unknown")
    ELSE Return("Error retrieving location")

\* fetch_pokemon_data of the script: no try
script_fetch_pokemon_data(pokemon_name, response, loc_response) ==
    IF response.kind = "exception" THEN Raise(response.message)
    ELSE IF response.status_code = 200
    THEN IF response.json.exc THEN Raise(response.json.msg)
         ELSE LET data == response.json.ret IN
              IF "id" \notin DOMAIN data THEN Raise("'id'")
              ELSE LET location == script_fetch_pokemon_location(loc_response) IN
                   IF location.exc THEN location
                   ELSE BuildRecord(data, location.ret)
    ELSE Return([name |-> pokemon_name, error |-> "Data not found"])

\* run_scouting_task, the list comprehension: the next target is resolved
ScriptResolve ==
    /\ script_pc = "fetch"
    /\ LET pokemon == target_pokemon[Len(script_data) + 1] IN
       \E response \in ScriptBase(Lower(pokemon)), loc_response \in ScriptLoc :
          LET res == script_fetch_pokemon_data(pokemon, response, loc_response) IN
          IF res.exc
          THEN /\ script_pc' = "raised"
               /\ UNCHANGED script_data
          ELSE /\ script_data' = Append(script_data, res.ret)
               /\ script_pc' = IF Len(script_data) + 1 = Len(target_pokemon)
                               THEN "write" ELSE "fetch"
    /\ UNCHANGED <<csv_file, appVars, listerVars>>

\* run_scouting_task, df = pd.DataFrame(pokemon_data); df.to_csv(..., index=False)
ScriptWrite ==
    /\ script_pc = "write"
    /\ csv_file' = to_csv(DataFrame(script_data),
                          "~/Downloads/pokemon_scouting_report.csv", FALSE)
    /\ script_pc' = "done"
    /\ UNCHANGED <<script_data, appVars, listerVars>>

-----------------------------------------------------------------------------
(* Catalog Lister *)

ListNames == {"pikachu", "bulbasaur", "mew"}

\* code point order of the names (what sorted() compares by)
Rank(n) ==
    CASE n = "bulbasaur" -> 1
      [] n = "mew"       -> 2
      [] n = "pikachu"   -> 3

RECURSIVE Insert(_, _)
Insert(x, s) ==
    IF s = <<>> THEN <<x>>
    ELSE IF Rank(x) < Rank(Head(s)) THEN <<x>> \o s
    ELSE <<Head(s)>> \o Insert(x, Tail(s))

RECURSIVE sorted(_)
\* sorted(list of str)
sorted(s) == IF s = <<>> THEN <<>> ELSE Insert(Head(s), sorted(Tail(s)))

\* the entries of a listing: with a name, or without one
ListEntries ==
    {[name |-> n, url |-> POKEAPI_URL(n)] : n \in ListNames}
        \cup {[url |-> POKEAPI_URL("0")]}

ListingResponses ==
    { Exception("Connection refused"),
      Http(503, Unparsable),
      Http(200, Unparsable),
      Http(200, Return([count |-> 0])) }
    \cup { Http(200, Return([results |-> r])) :
             r \in UNION {[1..n -> ListEntries] : n \in 0..MaxListing} }

\* [p["name"] for p in results]
NamesOf(res) ==
    IF \E i \in 1..Len(res) : "name" \notin DOMAIN res[i]
    THEN Raise("'name'")
    ELSE Return([i \in 1..Len(res) |-> res[i].name])

\* data.get("results", [])
GetResults(data) == IF "results" \in DOMAIN data THEN data.results ELSE <<>>

\* the try block of load_pokemon_names, poke_app_v1.py
load_pokemon_names_v1_try(response) ==
    IF response.kind = "exception" THEN Raise(response.message)
    ELSE IF response.status_code = 200
    THEN IF response.json.exc THEN Raise(response.json.msg)
         ELSE NamesOf(GetResults(response.json.ret))
    ELSE Return(<<>>)

load_pokemon_names_v1(response) ==
    LET t == load_pokemon_names_v1_try(response) IN
    IF t.exc THEN Return(<<>>) ELSE t

\* the try block of load_pokemon_names, v4
load_pokemon_names_try(response) ==
    IF response.kind = "exception" THEN Raise(response.message)
    ELSE IF response.status_code = 200
    THEN IF response.json.exc THEN Raise(response.json.msg)
         ELSE LET names == NamesOf(GetResults(response.json.ret)) IN
              IF names.exc THEN names ELSE Return(sorted(names.ret))
    ELSE Return(<<>>)

\* variant: load_pokemon_names without its except clause
load_pokemon_names_noexcept(response) == load_pokemon_names_try(response)

load_pokemon_names(response) ==
    LET t == load_pokemon_names_try(response) IN
    IF t.exc THEN Return(<<>>) ELSE t

\* all_pokemon_names = load_pokemon_names() at the start of a program
Loaded(version, response, res) ==
    /\ listing' = response
    /\ lister' = IF res.exc THEN "raised" ELSE version
    /\ all_pokemon_names' = IF res.exc THEN <<>> ELSE res.ret
    /\ UNCHANGED <<appVars, scriptVars>>

StartV1 ==
    /\ lister = "none"
    /\ \E response \in ListingResponses :
          Loaded("v1", response, load_pokemon_names_v1(response))

StartV4 ==
    /\ lister = "none"
    /\ \E response \in ListingResponses :
          Loaded("v4", response, load_pokemon_names(response))

-----------------------------------------------------------------------------
(* Specifications *)

AppInit ==
    /\ n_clicks = 0
    /\ sel = [i \in 1..NumDropdowns |-> NONE]
    /\ store = PyNone
    /\ results = NoChildren
    /\ download = PyNone
    /\ pc = "entry"
    /\ pokemon_names = <<>>
    /\ pokemon_data = <<>>
    /\ pending = NoResponse
    /\ calls = <<>>

ScriptInit ==
    /\ script_pc = "fetch"
    /\ script_data = <<>>
    /\ csv_file = PyNone

ListerInit ==
    /\ lister = "none"
    /\ listing = NoResponse
    /\ all_pokemon_names = <<>>

\* what a dropdown can hold in the session model: cleared, empty, a name
LeanValues == {NONE, "", "Pikachu"}
LeanSels == [1..NumDropdowns -> LeanValues]

\* what a dropdown can hold in the batch model
RichValues == {NONE, "Pikachu", "mew"}
RichSels ==
    {s \in [1..NumDropdowns -> RichValues] :
        Cardinality({i \in 1..NumDropdowns : Truthy(s[i])}) <= MaxSelected}

\* A browser session of the v4 application: page loads, Fetch clicks, Download
\* clicks; one callback runs at a time.
Init == AppInit /\ ScriptInit /\ ListerInit

Next ==
    \/ PageLoad
    \/ Click(LeanSels)
    \/ Enter
    \/ BaseLookup("lean")
    \/ LocationLookup(LeanLoc)
    \/ Classify
    \/ DownloadClick
    \/ Download

Spec == Init /\ [][Next]_vars

\* One Fetch invocation of the v4 application, on any selection of at most
\* MaxSelected identifiers and any behaviour of the remote service.
InitBatch ==
    /\ n_clicks = 1
    /\ sel \in RichSels
    /\ store = PyNone
    /\ results = Text("")
    /\ download = PyNone
    /\ pc = "entry"
    /\ pokemon_names = <<>>
    /\ pokemon_data = <<>>
    /\ pending = NoResponse
    /\ calls = <<>>
    /\ ScriptInit /\ ListerInit

NextBatch ==
    \/ Enter
    \/ BaseLookup("rich")
    \/ LocationLookup(RichLoc)
    \/ Classify

SpecBatch == InitBatch /\ [][NextBatch]_vars

\* One run of the scouting script.
NextScript == ScriptResolve \/ ScriptWrite

SpecScript == Init /\ [][NextScript]_vars

\* The start of either program: the catalog listing is loaded once.
NextLister == StartV1 \/ StartV4

SpecLister == Init /\ [][NextLister]_vars

-----------------------------------------------------------------------------
(* Vocabulary of the properties *)

\* the positions of the dropdowns that hold an identifier, in order
NonBlankPos ==
    LET Holds(i) == sel[i] # NONE /\ sel[i] # "" IN
    SelectSeq([i \in 1..NumDropdowns |-> i], Holds)

\* the k-th identifier as the caller supplied it
Supplied(k) == sel[NonBlankPos[k]]

\* the response of the base lookup made for the k-th identifier
BaseResp(k) ==
    calls[CHOOSE j \in 1..Len(calls) :
            calls[j].op = "base" /\ calls[j].for = k].resp

HasLocationCall(k) ==
    \E j \in 1..Len(calls) : calls[j].op = "location" /\ calls[j].for = k

\* the response of the location lookup made for the k-th identifier
LocResp(k) ==
    calls[CHOOSE j \in 1..Len(calls) :
            calls[j].op = "location" /\ calls[j].for = k].resp

ExpectedFields ==
    {"id", "name", "height", "weight", "base_experience", "types"}

RecordFields == ExpectedFields \cup {"location"}

\* a base lookup that fails hard: a transport exception, a non-success status,
\* an unparsable body or an expected field absent from the body
HardFail(r) ==
    \/ r.kind = "exception"
    \/ r.status_code # 200
    \/ r.json.exc
    \/ ~(ExpectedFields \subseteq DOMAIN r.json.ret)

\* a base lookup after which no location lookup may follow
FailsBeforeId(r) ==
    \/ r.kind = "exception"
    \/ r.status_code # 200
    \/ r.json.exc
    \/ "id" \notin DOMAIN r.json.ret

\* a Fetch that resolved identifiers has returned
FetchDone == pc = "idle" /\ n_clicks > 0 /\ pokemon_data # <<>>

Resolved1(k) == k \in 1..Len(pokemon_data)

\* the indices of the identifiers whose base lookup failed hard, in order
FailingIdx ==
    LET Fails(k) == HardFail(BaseResp(k)) IN
    SelectSeq([k \in 1..Len(pokemon_data) |-> k], Fails)

LocationPrefix == "Exception occurred fetching location: "

\* the location string the specification gives for a location response
ExpectedLocation(l) ==
    IF l.kind = "exception" THEN LocationPrefix \o l.message
    ELSE IF l.status_code # 200
    THEN "Error retrieving location (status code " \o ToString(l.status_code) \o ")"
    ELSE IF l.json.exc THEN LocationPrefix \o l.json.msg
    ELSE IF l.json.ret = <<>> THEN "Unknown"
    ELSE IF \A i \in 1..Len(l.json.ret) : "location_area" \in DOMAIN l.json.ret[i]
    THEN Join(", ", [i \in 1..Len(l.json.ret) |-> l.json.ret[i].location_area.name])
    ELSE LocationPrefix \o "'location_area'"

-----------------------------------------------------------------------------
(* C1 *)

\* C1: when a Fetch has returned and the base lookup of at least one of its
\* identifiers failed hard, the outcome is the error report and no table is
\* displayed or retained, and the report lists exactly the failing identifiers
\* as supplied, in their original order, once per occurrence.
C1_ErrorReportListsFailing ==
    (FetchDone /\ FailingIdx # <<>>) =>
        /\ results.kind = "error_report"
        /\ store = PyNone
        /\ Len(pokemon_data) = Len(NonBlankPos)
        /\ results.names = [j \in 1..Len(FailingIdx) |-> Supplied(FailingIdx[j])]

\* a batch where the first identifier resolved and the second, supplied with a
\* capital letter, failed on a missing field
C1_Witness ==
    /\ FetchDone
    /\ Len(pokemon_data) = 2
    /\ ~HardFail(BaseResp(1))
    /\ HardFail(BaseResp(2)) /\ BaseResp(2).kind = "http"
    /\ BaseResp(2).status_code = 200
    /\ Supplied(2) = "Pikachu"
    /\ results.kind = "error_report"
    /\ results.names = <<"Pikachu">>

-----------------------------------------------------------------------------
(* C2 *)

\* the row the specification gives for a base body, the location apart
RowOf(row, body) ==
    /\ DOMAIN row = RecordFields
    /\ row.name = body.name
    /\ row.id = body.id
    /\ row.height = body.height
    /\ row.weight = body.weight
    /\ row.base_experience = body.base_experience
    /\ row.types = Join(", ", [i \in 1..Len(body.types) |-> body.types[i].type.name])

\* C2: when a Fetch has returned and every base lookup succeeded with all
\* expected fields, the outcome is a table with one row per non-blank
\* identifier, the i-th row being the record of the i-th identifier.
C2_TableRowPerIdentifier ==
    (FetchDone /\ FailingIdx = <<>>) =>
        /\ results.kind = "table"
        /\ Len(results.data) = Len(NonBlankPos)
        /\ \A i \in 1..Len(NonBlankPos) :
              RowOf(results.data[i], BaseResp(i).json.ret)

\* the same identifier selected twice: two rows, resolved independently
C2_Witness ==
    /\ FetchDone
    /\ results.kind = "table"
    /\ Len(results.data) = 2
    /\ Supplied(1) = "Pikachu" /\ Supplied(2) = "Pikachu"
    /\ results.data[1].location = "Unknown"
    /\ results.data[2].location = "viridian-forest, kanto-route-2"

-----------------------------------------------------------------------------
(* C3 *)

\* C3: an identifier whose base lookup succeeded with all expected fields is a
\* resolved row whatever its location lookup did, its location field is the
\* string the specification gives for the location response, and it is not
\* listed in the error report.
C3_LocationFailureIsSoft ==
    /\ \A k \in 1..Len(pokemon_data) :
          ~HardFail(BaseResp(k)) =>
              /\ ~IsError(pokemon_data[k])
              /\ HasLocationCall(k)
              /\ pokemon_data[k].location = ExpectedLocation(LocResp(k))
    /\ FetchDone =>
          /\ FailingIdx = <<>> => results.kind = "table"
          /\ results.kind = "error_report" =>
                Len(results.names) = Len(FailingIdx)

\* a table with a row whose location lookup got status 500 and a row whose
\* location lookup raised
C3_Witness ==
    /\ FetchDone
    /\ results.kind = "table"
    /\ Len(results.data) = 2
    /\ results.data[1].location = "Error retrieving location (status code 500)"
    /\ results.data[2].location = "Exception occurred fetching location: Read timed out"

-----------------------------------------------------------------------------
(* C5 *)

\* C5: fetch_pokemon_data never raises into update_results; each entry it
\* returned is a record with the 7 fields or a placeholder with the identifier
\* as supplied and a reason, and it is the placeholder exactly when the base
\* lookup failed hard.
C5_ResolverNeverRaises ==
    /\ pc # "raised"
    /\ \A k \in 1..Len(pokemon_data) :
          /\ IsError(pokemon_data[k]) <=> HardFail(BaseResp(k))
          /\ IsError(pokemon_data[k]) =>
                /\ DOMAIN pokemon_data[k] = {"name", "error"}
                /\ pokemon_data[k].name = Supplied(k)
          /\ ~IsError(pokemon_data[k]) => DOMAIN pokemon_data[k] = RecordFields

\* a placeholder made from a transport exception next to a record whose
\* location lookup returned malformed entries
C5_Witness ==
    /\ Len(pokemon_data) = 2
    /\ BaseResp(1).kind = "exception"
    /\ pokemon_data[1] = [name |-> "Pikachu", error |-> "Connection refused"]
    /\ ~IsError(pokemon_data[2])
    /\ pokemon_data[2].location = LocationPrefix \o "'location_area'"

-----------------------------------------------------------------------------
(* C8 *)

\* C8 as stated: a location lookup is made only for an identifier whose base
\* response held every base attribute, and never for an identifier whose
\* resolution ends as an error placeholder.
C8_LocationOnlyForResolved ==
    \A j \in 1..Len(calls) :
        (calls[j].op = "location" /\ Resolved1(calls[j].for)) =>
            /\ ~HardFail(BaseResp(calls[j].for))
            /\ ~IsError(pokemon_data[calls[j].for])

\* C8, amended: a location lookup directly follows the base lookup of the same
\* identifier, that base lookup returned status 200 with a parsable body that
\* holds id, and the location lookup is keyed by that id; no location lookup
\* is made for an identifier whose base lookup raised, returned a non-success
\* status or an unparsable body, or lacked id.
C8_LocationAfterId ==
    /\ \A j \in 1..Len(calls) :
          calls[j].op = "location" =>
              /\ j > 1
              /\ calls[j-1].op = "base"
              /\ calls[j-1].for = calls[j].for
              /\ ~FailsBeforeId(calls[j-1].resp)
              /\ calls[j].url = "https://pokeapi.co/api/v2/pokemon/"
                                \o ToString(calls[j-1].resp.json.ret.id)
                                \o "/encounters"
    /\ \A j \in 1..Len(calls) :
          (calls[j].op = "base" /\ FailsBeforeId(calls[j].resp)) =>
              ~HasLocationCall(calls[j].for)

\* the body lacked height: the location lookup was made, by the id of the
\* body, and the identifier ended as an error placeholder
C8_Witness ==
    /\ Len(calls) = 2 /\ Len(pokemon_data) = 1
    /\ calls[1].op = "base" /\ calls[2].op = "location"
    /\ "height" \notin DOMAIN calls[1].resp.json.ret
    /\ calls[2].url = "https://pokeapi.co/api/v2/pokemon/151/encounters"
    /\ pokemon_data[1] = [name |-> "mew", error |-> "'height'"]

-----------------------------------------------------------------------------
(* C9 *)

\* C9: the remote calls of one Fetch are made one identifier after the other
\* in input order: for each identifier one base lookup by the lower-cased
\* identifier and then at most one location lookup, all of them before the
\* base lookup of the next identifier; at most 5 identifiers, at most 10 calls.
C9_SequentialCalls ==
    /\ Len(pokemon_names) <= 5
    /\ Len(calls) <= 10
    /\ \A j \in 1..Len(calls) :
          /\ calls[j].for \in 1..Len(pokemon_names)
          /\ calls[j].op = "base" =>
                /\ j > 1 => calls[j-1].for = calls[j].for - 1
                /\ j = 1 => calls[j].for = 1
                /\ Supplied(calls[j].for) = "Pikachu" =>
                      calls[j].url = "https://pokeapi.co/api/v2/pokemon/pikachu"
          /\ calls[j].op = "location" =>
                /\ j > 1
                /\ calls[j-1].op = "base"
                /\ calls[j-1].for = calls[j].for
    /\ pc = "base" =>
          \A j \in 1..Len(calls) : calls[j].for <= Len(pokemon_data)
    /\ pc \in {"classify", "idle"} =>
          \A k \in 1..Len(pokemon_names) :
              \E j \in 1..Len(calls) : calls[j].op = "base" /\ calls[j].for = k

\* five identifiers, each with a base and a location lookup
C9_Witness ==
    /\ pc = "idle"
    /\ Len(pokemon_names) = 5
    /\ Len(calls) = 10
    /\ calls[9].for = 5 /\ calls[9].op = "base"
    /\ calls[10].for = 5 /\ calls[10].op = "location"

-----------------------------------------------------------------------------
(* C4 *)

C4_OrderKeptCase ==
    /\ pc = "idle" /\ sel = <<"", "Pikachu", NONE, "Pikachu", "">>
    /\ Len(pokemon_data) = 2 /\ Len(calls) = 4

-----------------------------------------------------------------------------
(* C10 *)

\* the last Fetch produced a table
LastFetchClean ==
    /\ n_clicks > 0
    /\ NonBlankPos # <<>>
    /\ \A k \in 1..Len(pokemon_data) : ~IsError(pokemon_data[k])

\* C10, the retained data: between callbacks the store holds the rows of the
\* most recent Fetch if it produced a table and nothing otherwise.
C10_StoreIsLastTable ==
    pc \in {"idle", "download"} =>
        IF LastFetchClean
        THEN /\ store = PyList(pokemon_data)
             /\ Len(pokemon_data) = Len(NonBlankPos)
             /\ results.kind = "table"
        ELSE /\ store = PyNone
             /\ results.kind \in {"text", "error_report"}

\* C10, Download: a Download exports the rows the store holds, nothing when
\* the store is empty, and leaves the store as it is.
C10_DownloadStep ==
    (pc = "download" /\ pc' = "idle") =>
        /\ store' = store
        /\ IF store = PyNone THEN download' = PyNone
           ELSE /\ download' # PyNone
                /\ download'.columns = RecordFields
                /\ Len(download'.rows) = Len(store.items)
                /\ \A i \in 1..Len(store.items) :
                      \A c \in RecordFields :
                          download'.rows[i][c] = store.items[i][c]

\* C10: after any sequence of Fetch and Download actions the retained data is
\* the table of the most recent Fetch or nothing, and Download exports exactly
\* what is retained without changing it.
C10_RetainedData == []C10_StoreIsLastTable /\ [][C10_DownloadStep]_vars

\* a table was downloaded, then a Fetch failed: the store is empty again while
\* the earlier export is still what the download component holds
C10_Witness ==
    /\ pc = "idle"
    /\ results.kind = "error_report"
    /\ store = PyNone
    /\ download # PyNone

-----------------------------------------------------------------------------
(* C6 *)

\* a record in which every field is present and no error is carried
FullRow(row) ==
    /\ RecordFields \subseteq DOMAIN row
    /\ \A c \in DOMAIN row : c = "error" => row[c] = NaN
    /\ row.location # NaN /\ row.types # NaN

\* the tables of the application: displayed, retained, exported
C6_AppTables ==
    /\ results.kind = "table" =>
          \A i \in 1..Len(results.data) :
              DOMAIN results.data[i] = RecordFields
    /\ store # PyNone =>
          \A i \in 1..Len(store.items) : DOMAIN store.items[i] = RecordFields
    /\ download # PyNone =>
          /\ download.columns = RecordFields
          /\ \A i \in 1..Len(download.rows) : FullRow(download.rows[i])

\* C6: no table a batch run displays, retains or writes to CSV holds a row for
\* an identifier whose resolution failed; this for the Fetch and Download
\* callbacks and for run_scouting_task.
C6_NoPartialTable ==
    /\ C6_AppTables
    /\ csv_file # PyNone =>
          /\ "error" \notin csv_file.columns
          /\ \A i \in 1..Len(csv_file.rows) : FullRow(csv_file.rows[i])

-----------------------------------------------------------------------------
(* C7 *)

\* the listing call succeeded: status 200, a parsable body, named entries
ListingOk(r) ==
    /\ r.kind = "http" /\ r.status_code = 200 /\ ~r.json.exc
    /\ \A i \in 1..Len(GetResults(r.json.ret)) :
          "name" \in DOMAIN GetResults(r.json.ret)[i]

\* the names of the listing in the order received
Received(r) ==
    [i \in 1..Len(GetResults(r.json.ret)) |-> GetResults(r.json.ret)[i].name]

Count(x, s) == Cardinality({i \in 1..Len(s) : s[i] = x})

\* C7 as stated: load_pokemon_names never raises, returns the empty sequence
\* on a failed listing call and the names in the order received on success.
C7_NamesInOrderReceived ==
    /\ lister # "raised"
    /\ lister \in {"v1", "v4"} =>
          IF ListingOk(listing)
          THEN all_pokemon_names = Received(listing)
          ELSE all_pokemon_names = <<>>

\* C7, amended: load_pokemon_names never raises; it returns the empty sequence
\* when the listing call raised, returned a non-success status or an
\* unparsable body, or held an entry without a name; otherwise the first
\* version returns the names in the order received and v4 returns the same
\* names sorted in ascending code point order.
C7_NamesInOrderOrSorted ==
    /\ lister # "raised"
    /\ lister \in {"v1", "v4"} =>
          IF ~ListingOk(listing) THEN all_pokemon_names = <<>>
          ELSE IF lister = "v1" THEN all_pokemon_names = Received(listing)
          ELSE /\ Len(all_pokemon_names) = Len(Received(listing))
               /\ \A n \in ListNames :
                     Count(n, all_pokemon_names) = Count(n, Received(listing))
               /\ \A i \in 1..(Len(all_pokemon_names) - 1) :
                     Rank(all_pokemon_names[i]) <= Rank(all_pokemon_names[i+1])

\* v4 on a listing received out of alphabetical order
C7_Witness ==
    /\ lister = "v4"
    /\ ListingOk(listing)
    /\ Received(listing) = <<"pikachu", "bulbasaur", "mew">>
    /\ all_pokemon_names = <<"bulbasaur", "mew", "pikachu">>

====
